---- MODULE Spec2Model ----
(***************************************************************************)
(* Model of the vector quantizer VQ of recognition/46425254-VQVAE/modules.py *)
(* (class VQ, lines 76-198).  Tensors are dense row-major arrays: a record  *)
(* [shape, data] whose data is the flat sequence of the elements in         *)
(* contiguous order.  Real values are modelled by integers, the loss (a     *)
(* mean) by an exact fraction <<numerator, denominator>>; a denominator of  *)
(* 0 is the NaN that the mean of an empty tensor gives.                     *)
(***************************************************************************)
EXTENDS Integers, Sequences, FiniteSets, TLC

\* ------------------------------------------------------------------ bounds
MaxB == 2          \* batch sizes 0..MaxB
MaxC == 2          \* channel depths 1..MaxC of the tensors handed to forward
MaxHW == 2         \* heights and widths 0..MaxHW
MaxElems == 4      \* at most this many elements in an input tensor
MaxK == 2          \* num_embeddings 1..MaxK
MaxD == 2          \* embedding_dim 1..MaxD
MaxCells == 4      \* codebooks of at most K*D = MaxCells cells are enumerated
MemoElems == 2     \* SpecMemo: inputs of at most this many elements
MemoCells == 2     \* SpecMemo: codebooks of at most this many cells
MaxSize == 4       \* SpecMask: grids of 1..MaxSize rows and columns

CodeVals == {0, 1}         \* values a codebook cell takes
InVals == {0, 1}           \* values an input element takes

\* ------------------------------------------------------------------ state
VARIABLES
    num_embeddings,    \* self.num_embeddings (K)
    embedding_dim,     \* self.embedding_dim (D)
    commitment_loss,   \* self.commitment_loss (beta), a fraction
    weight,            \* self.embedding_table.weight, a K x D tensor
    pc,                \* "idle", "called", "returned", "raised", "graded", "first_graded", "second_graded"
    encoder_inputs,    \* the caller's tensor handed to forward
    indexes,           \* forward's indexes (one per row)
    encodings,         \* forward's one-hot matrix
    first_term,        \* forward's first_term
    second_term,       \* forward's second_term
    quantized,         \* the returned quantized tensor
    loss,              \* the returned loss
    grad_output,       \* the gradient injected at quantized
    grad_input,        \* the gradient that reached encoder_inputs
    grad_weight,       \* the gradient that reached the codebook
    memo,              \* at most one earlier call on record: its input, codebook and results
    size,              \* conv_mask_abstract: size
    current_pos,       \* conv_mask_abstract: current_pos = <<x, y>>
    mask_type,         \* conv_mask_abstract: mask_type
    mask_grid          \* conv_mask_abstract: the returned mask_grid, row by row

\* ------------------------------------------------------------- arithmetic
RECURSIVE SumTo(_, _)
\* sum of f[1..n]
SumTo(f, n) == IF n = 0 THEN 0 ELSE f[n] + SumTo(f, n - 1)

RECURSIVE Prod(_)
Prod(s) == IF s = <<>> THEN 1 ELSE Head(s) * Prod(Tail(s))

Numel(t) == Prod(t.shape)

Tensor(shape, data) == [shape |-> shape, data |-> data]

\* element (r, c), 0-based, of a 2-d tensor
At2(t, r, c) == t.data[r * t.shape[2] + c + 1]

\* element (a, b, c, d), 0-based, of a 4-d tensor
At4(t, a, b, c, d) ==
    t.data[((a * t.shape[2] + b) * t.shape[3] + c) * t.shape[4] + d + 1]

\* fractions: <<n, d>> is n/d for d > 0 and NaN for d = 0
RatAdd(a, b) == <<a[1] * b[2] + b[1] * a[2], a[2] * b[2]>>
RatMul(a, b) == <<a[1] * b[1], a[2] * b[2]>>
IsNaN(a) == a[2] = 0
RatEq(a, b) == ~IsNaN(a) /\ ~IsNaN(b) /\ a[1] * b[2] = b[1] * a[2]
RatSign(a) == IF a[1] * a[2] > 0 THEN 1 ELSE IF a[1] * a[2] < 0 THEN -1 ELSE 0

\* ------------------------------------------------------------ tensor ops
\* x.permute(0, 2, 3, 1).contiguous(): (B, C, H, W) -> (B, H, W, C), the data
\* laid out anew in the permuted order
Permute0231(t) ==
    LET B == t.shape[1]  C == t.shape[2]  H == t.shape[3]  W == t.shape[4]
    IN  Tensor(<<B, H, W, C>>,
               [o \in 1..(B * C * H * W) |->
                   LET o0 == o - 1
                       c == o0 % C
                       w == (o0 \div C) % W
                       h == (o0 \div (C * W)) % H
                       b == o0 \div (C * W * H)
                   IN  At4(t, b, c, h, w)])

\* a reshape in place of the permutation: the shape becomes (B, C, H, W) and
\* the data stays in channel-last order
Reshape0312(t) ==
    Tensor(<<t.shape[1], t.shape[4], t.shape[2], t.shape[3]>>, t.data)

\* x.permute(0, 3, 1, 2).contiguous(): (B, H, W, C) -> (B, C, H, W)
Permute0312(t) ==
    LET B == t.shape[1]  H == t.shape[2]  W == t.shape[3]  C == t.shape[4]
    IN  Tensor(<<B, C, H, W>>,
               [o \in 1..(B * C * H * W) |->
                   LET o0 == o - 1
                       w == o0 % W
                       h == (o0 \div W) % H
                       c == (o0 \div (W * H)) % C
                       b == o0 \div (W * H * C)
                   IN  At4(t, b, h, w, c)])

\* view(-1, D) refused also for a tensor of no elements
ViewRowsOKNonEmpty(n, D) == n > 0 /\ n % D = 0

\* view(-1, D) of a contiguous tensor of n elements succeeds exactly when D
\* divides n (D > 0); with n = 0 the result has 0 rows
ViewRowsOK(n, D) == n % D = 0

\* t.view(-1, D)
ViewRows(t, D) == Tensor(<<Numel(t) \div D, D>>, t.data)

\* t.view(shape), the element counts being equal
View(t, shape) == Tensor(shape, t.data)

\* torch.sum(t**2, dim=1): the sum of the squares of row r
SumSqRow(t, r) ==
    SumTo([d \in 1..t.shape[2] |-> At2(t, r, d - 1) * At2(t, r, d - 1)], t.shape[2])

\* torch.matmul(a, b) of two 2-d tensors
Matmul(a, b) ==
    LET R == a.shape[1]  J == a.shape[2]  Cc == b.shape[2]
    IN  Tensor(<<R, Cc>>,
               [o \in 1..(R * Cc) |->
                   LET r == (o - 1) \div Cc
                       c == (o - 1) % Cc
                   IN  SumTo([j \in 1..J |-> At2(a, r, j - 1) * At2(b, j - 1, c)], J)])

\* t.t() of a 2-d tensor
Transpose(t) ==
    LET R == t.shape[1]  Cc == t.shape[2]
    IN  Tensor(<<Cc, R>>,
               [o \in 1..(R * Cc) |-> At2(t, (o - 1) % R, (o - 1) \div R)])

\* the distances with the product term taken once instead of twice
AllDistancesOnce(f, w) ==
    LET N == f.shape[1]  K == w.shape[1]
        fw == Matmul(f, Transpose(w))
    IN  Tensor(<<N, K>>,
               [o \in 1..(N * K) |->
                   LET n == (o - 1) \div K
                       k == (o - 1) % K
                   IN  SumSqRow(f, n) + SumSqRow(w, k) - At2(fw, n, k)])

\* all_distances: |f|^2 + |w|^2 - 2 f.w for every row of f and every row of w
AllDistances(f, w) ==
    LET N == f.shape[1]  K == w.shape[1]
        fw == Matmul(f, Transpose(w))
    IN  Tensor(<<N, K>>,
               [o \in 1..(N * K) |->
                   LET n == (o - 1) \div K
                       k == (o - 1) % K
                   IN  SumSqRow(f, n) + SumSqRow(w, k) - 2 * At2(fw, n, k)])

\* the last of the minimal entries of row n
ArgminLast(dist, n) ==
    LET K == dist.shape[2]
    IN  CHOOSE k \in 0..(K - 1) :
            /\ \A j \in 0..(K - 1) : At2(dist, n, k) <= At2(dist, n, j)
            /\ \A j \in (k + 1)..(K - 1) : At2(dist, n, j) > At2(dist, n, k)

\* torch.argmin(dist, dim=1) at row n: the index of the first minimal entry
Argmin(dist, n) ==
    LET K == dist.shape[2]
    IN  CHOOSE k \in 0..(K - 1) :
            /\ \A j \in 0..(K - 1) : At2(dist, n, k) <= At2(dist, n, j)
            /\ \A j \in 0..(k - 1) : At2(dist, n, j) > At2(dist, n, k)

\* the indexes of the call before, kept when the row count is the same
IndexesReused(dist) ==
    IF Len(indexes) = dist.shape[1]
    THEN indexes
    ELSE [n \in 1..dist.shape[1] |-> Argmin(dist, n - 1)]

\* indexes: one codebook index per row of the distance matrix
Indexes(dist) == [n \in 1..dist.shape[1] |-> Argmin(dist, n - 1)]

\* torch.zeros(N, K).scatter_(1, indexes, 1): row n has a 1 at indexes[n]
Scatter(idx, K) ==
    LET N == Len(idx)
    IN  Tensor(<<N, K>>,
               [o \in 1..(N * K) |->
                   IF (o - 1) % K = idx[((o - 1) \div K) + 1] THEN 1 ELSE 0])

\* the mean of the differences, not of their squares
MeanDiff(a, b) ==
    <<SumTo([i \in 1..Len(a.data) |-> a.data[i] - b.data[i]], Len(a.data)),
      Len(a.data)>>

\* nn.functional.mse_loss(a, b): the mean of the squared differences; the
\* mean of no elements is NaN
MseLoss(a, b) ==
    <<SumTo([i \in 1..Len(a.data) |->
                (a.data[i] - b.data[i]) * (a.data[i] - b.data[i])], Len(a.data)),
      Len(a.data)>>

\* elementwise a + b and a - b
TAdd(a, b) == Tensor(a.shape, [i \in 1..Len(a.data) |-> a.data[i] + b.data[i]])
TSub(a, b) == Tensor(a.shape, [i \in 1..Len(a.data) |-> a.data[i] - b.data[i]])
TNeg(a) == Tensor(a.shape, [i \in 1..Len(a.data) |-> 0 - a.data[i]])
Zeros(shape) == Tensor(shape, [i \in 1..Prod(shape) |-> 0])

\* t.detach(): the same values
Detach(t) == t

\* a detach() that lets the gradient through
DetachGradThrough(g) == g

\* the backward rule of detach(): no gradient reaches its operand
DetachGrad(g) == Zeros(g.shape)

\* first_term + second_term, the weight left out
TotalLossUnweighted(first, second, beta) == RatAdd(first, second)

\* loss = first_term + beta * second_term
TotalLoss(first, second, beta) == RatAdd(first, RatMul(beta, second))

\* ---------------------------------------------------------------- forward
\* VQ.forward(x) on codebook w (K rows of D cells) with commitment weight
\* beta: every local of the method, and ok = FALSE when a view raises
VQForward(x, w, D, K, beta) ==
    LET encoder_inputs_bhwc == Permute0231(x)
        shape == encoder_inputs_bhwc.shape
    IN  IF ~ViewRowsOK(Numel(encoder_inputs_bhwc), D)
        THEN [ok |-> FALSE]
        ELSE
        LET flattened_inputs == ViewRows(encoder_inputs_bhwc, D)
            all_distances == AllDistances(flattened_inputs, w)
            idx == Indexes(all_distances)
            enc == Scatter(idx, K)
            quantized_bhwc == View(Matmul(enc, w), shape)
            first == MseLoss(Detach(quantized_bhwc), encoder_inputs_bhwc)
            second == MseLoss(quantized_bhwc, Detach(encoder_inputs_bhwc))
            ste == TAdd(encoder_inputs_bhwc,
                        Detach(TSub(quantized_bhwc, encoder_inputs_bhwc)))
        IN  [ok |-> TRUE,
             flattened_inputs |-> flattened_inputs,
             indexes |-> idx,
             encodings |-> enc,
             first_term |-> first,
             second_term |-> second,
             loss |-> TotalLoss(first, second, beta),
             quantized |-> Permute0312(ste)]

\* --------------------------------------------------------------- backward
\* The backward pass of the returned `quantized` for an upstream gradient g
\* (of the shape of quantized): the gradient that reaches the tensor handed
\* to forward and the one that reaches the codebook.
VQBackward(g, enc, D) ==
    LET g_bhwc == Permute0231(g)
        \* g reaches encoder_inputs directly, and (quantized_bhwc -
        \* encoder_inputs) through detach()
        g_detached == DetachGrad(g_bhwc)
        grad_encoder_bhwc == TAdd(g_bhwc, TNeg(g_detached))
        grad_quantized_flat == ViewRows(g_detached, D)
    IN  [grad_input |-> Permute0312(grad_encoder_bhwc),
         grad_weight |-> Matmul(Transpose(enc), grad_quantized_flat)]

\* the backward rule of mse_loss(a, b) for its first operand, times the
\* element count n: n * d mse / d a[i] = 2 (a[i] - b[i]); the second operand
\* gets the negative
MseLossGrad(a, b) ==
    Tensor(a.shape, [i \in 1..Len(a.data) |-> 2 * (a.data[i] - b.data[i])])

\* The backward pass of one of the two loss terms ("first_term" or
\* "second_term") for a unit gradient at the term: n times the gradient that
\* reaches the tensor handed to forward and the one that reaches the
\* codebook, n the element count of the input.
VQTermBackward(term, x, w, enc, D) ==
    LET encoder_inputs_bhwc == Permute0231(x)
        quantized_bhwc == View(Matmul(enc, w), encoder_inputs_bhwc.shape)
        g == MseLossGrad(quantized_bhwc, encoder_inputs_bhwc)
        \* first_term = mse_loss(quantized_bhwc.detach(), encoder_inputs)
        \* second_term = mse_loss(quantized_bhwc, encoder_inputs.detach())
        grad_quantized_bhwc == IF term = "first_term" THEN DetachGrad(g) ELSE g
        grad_encoder_bhwc ==
            IF term = "first_term" THEN TNeg(g) ELSE DetachGrad(TNeg(g))
    IN  [grad_input |-> Permute0312(grad_encoder_bhwc),
         grad_weight |-> Matmul(Transpose(enc), ViewRows(grad_quantized_bhwc, D))]

\* ---------------------------------------------------------- the machine
config == <<num_embeddings, embedding_dim, commitment_loss>>
locals == <<indexes, encodings, first_term, second_term, quantized, loss>>
grads == <<grad_output, grad_input, grad_weight>>
mask == <<size, current_pos, mask_type, mask_grid>>
vars == <<config, weight, pc, encoder_inputs, locals, grads, memo, mask>>

NoTensor == Tensor(<<>>, <<>>)
NoLoss == <<0, 1>>
NoMemo == <<>>
NoGrid == <<>>

\* the commitment weights: 0, the module's commitment_loss = 0.25, and a
\* negative one
Betas == {<<0, 1>>, <<1, 4>>, <<-1, 1>>}

\* the codebook of the K=4, D=2 scenario, and the same rows in another order
ScenarioCodebook == Tensor(<<4, 2>>, <<0, 0, 10, 10, -10, 10, 10, -10>>)
ScenarioCodebookRotated == Tensor(<<4, 2>>, <<10, 10, -10, 10, 10, -10, 0, 0>>)

Configs ==
    {kd \in (1..MaxK) \X (1..MaxD) : kd[1] * kd[2] <= MaxCells}
        \cup {ScenarioCodebook.shape}

\* the codebooks construction can leave: every cell within [-1/K, 1/K], here
\* -1..1 in units of 1/K; the large codebook starts at 0
InitCodebooks(K, D) ==
    IF K * D <= MaxCells
    THEN {Tensor(<<K, D>>, d) : d \in [1..(K * D) -> CodeVals]}
    ELSE {Zeros(<<K, D>>)}

\* the codebooks an optimizer step can leave
Codebooks(K, D) ==
    InitCodebooks(K, D)
        \cup {cb \in {ScenarioCodebook, ScenarioCodebookRotated} : cb.shape = <<K, D>>}

Shapes ==
    {s \in (0..MaxB) \X (1..MaxC) \X (0..MaxHW) \X (0..MaxHW) : Prod(s) <= MaxElems}

Inputs == UNION {{Tensor(s, d) : d \in [1..Prod(s) -> InVals]} : s \in Shapes}

\* the one-hot tensors of a shape: a unit gradient at one element
OneHots(shape) ==
    {Tensor(shape, [i \in 1..Prod(shape) |-> IF i = e THEN 1 ELSE 0]) :
        e \in 1..Prod(shape)}

\* VQ.__init__
Init ==
    /\ \E kd \in Configs :
          /\ num_embeddings = kd[1]
          /\ embedding_dim = kd[2]
          /\ weight \in InitCodebooks(kd[1], kd[2])
    /\ commitment_loss \in Betas
    /\ pc = "idle"
    /\ encoder_inputs = NoTensor
    /\ indexes = <<>>
    /\ encodings = NoTensor
    /\ first_term = NoLoss
    /\ second_term = NoLoss
    /\ quantized = NoTensor
    /\ loss = NoLoss
    /\ grad_output = NoTensor
    /\ grad_input = NoTensor
    /\ grad_weight = NoTensor
    /\ memo = NoMemo
    /\ size = 0
    /\ current_pos = <<0, 0>>
    /\ mask_type = "A"
    /\ mask_grid = NoGrid

ClearLocals ==
    /\ indexes' = <<>>
    /\ encodings' = NoTensor
    /\ first_term' = NoLoss
    /\ second_term' = NoLoss
    /\ quantized' = NoTensor
    /\ loss' = NoLoss
    /\ grad_output' = NoTensor
    /\ grad_input' = NoTensor
    /\ grad_weight' = NoTensor

\* the caller hands a tensor to forward
Call(x) ==
    /\ pc = "idle"
    /\ pc' = "called"
    /\ encoder_inputs' = x
    /\ ClearLocals
    /\ UNCHANGED <<config, weight, memo>>
    /\ UNCHANGED mask

\* forward keeps a running codebook: each row becomes the sum of the inputs
\* assigned to it
ForwardFrameEMA(r) ==
    /\ weight' = IF r.ok THEN Matmul(Transpose(r.encodings), r.flattened_inputs)
                         ELSE weight
    /\ UNCHANGED <<config, encoder_inputs>>

\* forward assigns no attribute of self and no element of its argument
ForwardFrame(r) == UNCHANGED <<config, weight, encoder_inputs>>

\* the body of VQ.forward, to its return or to the error it raises
Forward ==
    /\ pc = "called"
    /\ LET r == VQForward(encoder_inputs, weight, embedding_dim, num_embeddings,
                          commitment_loss)
       IN  /\ IF r.ok
              THEN /\ pc' = "returned"
                   /\ indexes' = r.indexes
                   /\ encodings' = r.encodings
                   /\ first_term' = r.first_term
                   /\ second_term' = r.second_term
                   /\ quantized' = r.quantized
                   /\ loss' = r.loss
              ELSE /\ pc' = "raised"
                   /\ UNCHANGED locals
           /\ ForwardFrame(r)
    /\ UNCHANGED <<grads, memo>>
    /\ UNCHANGED mask

\* backpropagation of a unit gradient injected at one element of quantized
Backward(g) ==
    /\ pc = "returned"
    /\ LET r == VQBackward(g, encodings, embedding_dim)
       IN  /\ grad_output' = g
           /\ grad_input' = r.grad_input
           /\ grad_weight' = r.grad_weight
    /\ pc' = "graded"
    /\ UNCHANGED <<config, weight, encoder_inputs, locals, memo>>
    /\ UNCHANGED mask

\* the caller is done with the results
Release ==
    /\ pc \in {"returned", "raised", "graded", "first_graded", "second_graded"}
    /\ pc' = "idle"
    /\ encoder_inputs' = NoTensor
    /\ ClearLocals
    /\ UNCHANGED <<config, weight, memo>>
    /\ UNCHANGED mask

\* the external optimizer's step on the codebook, between forward passes
OptimizerStep(cb) ==
    /\ pc = "idle"
    /\ cb # weight
    /\ weight' = cb
    /\ UNCHANGED <<config, pc, encoder_inputs, locals, grads, memo>>
    /\ UNCHANGED mask

Next ==
    \/ \E x \in Inputs : Call(x)
    \/ Forward
    \/ \E g \in OneHots(quantized.shape) : Backward(g)
    \/ Release
    \/ \E cb \in Codebooks(num_embeddings, embedding_dim) : OptimizerStep(cb)

Spec == Init /\ [][Next]_vars

\* ================================================================ claims
Returned == pc \in {"returned", "graded"}

\* row n (1-based) of the N x D matrix of query vectors of the call
QueryRow(n) ==
    LET f == ViewRows(Permute0231(encoder_inputs), embedding_dim)
    IN  [d \in 1..embedding_dim |-> At2(f, n - 1, d - 1)]

\* codebook row k (0-based)
CodeRow(k) == [d \in 1..embedding_dim |-> At2(weight, k, d - 1)]

\* the squared Euclidean distance of two vectors, from the differences
SqDist(u, v) == SumTo([d \in 1..Len(u) |-> (u[d] - v[d]) * (u[d] - v[d])], Len(u))

ScenarioQuery == Tensor(<<1, 2, 1, 1>>, <<1, 1>>)

\* C1: the index selected for a query vector minimises the squared Euclidean
\* distance to it over the K codebook vectors; in the scenario (codebook
\* [[0,0],[10,10],[-10,10],[10,-10]], query [1,1]) index 0 is selected and
\* the quantized vector is [0,0].
C1_NearestSelected ==
    Returned =>
        /\ \A n \in 1..Len(indexes) : \A k \in 0..(num_embeddings - 1) :
              SqDist(QueryRow(n), CodeRow(indexes[n])) <= SqDist(QueryRow(n), CodeRow(k))
        /\ (weight = ScenarioCodebook /\ encoder_inputs = ScenarioQuery) =>
              /\ indexes = <<0>>
              /\ quantized = Tensor(<<1, 2, 1, 1>>, <<0, 0>>)

C1_Witness ==
    /\ pc = "returned"
    /\ weight = ScenarioCodebook
    /\ encoder_inputs = ScenarioQuery
    /\ indexes = <<0>>
    /\ SqDist(QueryRow(1), CodeRow(0)) = 2
    /\ \A k \in 1..3 : SqDist(QueryRow(1), CodeRow(k)) >= 162

\* the channel vector of a (B, C, H, W) tensor at batch b and position (h, w)
ChannelVec(t, b, h, w) == [d \in 1..t.shape[2] |-> At4(t, b, d - 1, h, w)]

\* C2: for an input of shape (B, D, H, W) the returned quantized has the same
\* shape, and its channel vector at every (b, h, w) is the codebook vector
\* assigned to the input's channel vector at that same (b, h, w), the index
\* recorded for that position being a nearest one of that vector.
C2_PositionsKept ==
    (Returned /\ encoder_inputs.shape[2] = embedding_dim) =>
        LET B == encoder_inputs.shape[1]
            H == encoder_inputs.shape[3]
            W == encoder_inputs.shape[4]
        IN  /\ quantized.shape = encoder_inputs.shape
            /\ \A b \in 0..(B - 1), h \in 0..(H - 1), w \in 0..(W - 1) :
                  LET k == indexes[(b * H + h) * W + w + 1]
                      v == ChannelVec(encoder_inputs, b, h, w)
                  IN  /\ ChannelVec(quantized, b, h, w) = CodeRow(k)
                      /\ \A j \in 0..(num_embeddings - 1) :
                            SqDist(v, CodeRow(k)) <= SqDist(v, CodeRow(j))

C2_Witness ==
    /\ pc = "returned"
    /\ embedding_dim = 2
    /\ encoder_inputs.shape = <<1, 2, 2, 1>>
    /\ quantized.shape = <<1, 2, 2, 1>>
    /\ indexes = <<0, 1>>
    /\ CodeRow(0) = <<0, 1>>
    /\ CodeRow(1) = <<1, 0>>
    /\ quantized.data = <<0, 1, 1, 0>>

\* C3: a unit gradient injected at an element of the returned quantized
\* arrives as the same unit gradient at the same element of the input, and
\* no gradient reaches the codebook.
C3_StraightThrough ==
    pc = "graded" =>
        /\ grad_input = grad_output
        /\ grad_weight = Zeros(weight.shape)

C3_Witness ==
    /\ pc = "graded"
    /\ Len(indexes) >= 2
    /\ \E n \in 1..Len(indexes) : indexes[n] # indexes[1]
    /\ quantized # encoder_inputs
    /\ SumTo(grad_input.data, Len(grad_input.data)) = 1
    /\ grad_input = grad_output

\* the mean of the squared differences of the returned quantized and the
\* input, element by element
RefMse ==
    <<SumTo([i \in 1..Len(quantized.data) |->
                (quantized.data[i] - encoder_inputs.data[i])
                    * (quantized.data[i] - encoder_inputs.data[i])],
            Len(quantized.data)),
      Len(quantized.data)>>

\* equal values, or both NaN
RatSame(a, b) == (IsNaN(a) /\ IsNaN(b)) \/ RatEq(a, b)

\* C4: both loss terms are the mean squared error of quantized and input,
\* the returned loss is first_term + beta * second_term, and for beta = 0 it
\* is the first term.
C4_LossFormula ==
    Returned =>
        /\ RatSame(first_term, RefMse)
        /\ RatSame(second_term, RefMse)
        /\ RatSame(loss, RatAdd(RefMse, RatMul(commitment_loss, RefMse)))
        /\ (commitment_loss[1] = 0 => RatSame(loss, RefMse))

C4_Witness ==
    /\ pc = "returned"
    /\ commitment_loss = <<1, 4>>
    /\ RatEq(RefMse, <<1, 2>>)
    /\ RatEq(loss, <<5, 8>>)

\* C5: forward returns no result for an input whose channel dimension
\* differs from embedding_dim, the inputs whose element count is a multiple
\* of embedding_dim included (stated for the inputs of at least one element).
C5_RaisesOnChannelMismatch ==
    (Returned /\ Numel(encoder_inputs) > 0) =>
        encoder_inputs.shape[2] = embedding_dim

\* ------------------------------------------------- calls kept on record
\* SpecMemo follows a sequence of forward calls and optimizer steps on small
\* codebooks and on inputs of one row of positions, shape (1, D, 1, W).  One
\* call is kept on record for as long as the codebook stays as it was, and
\* the indexes of a call outlive it: nothing clears them before the next
\* call assigns them.
MemoInputs ==
    {x \in Inputs :
        /\ x.shape[1] = 1
        /\ x.shape[3] = 1
        /\ Numel(x) >= 1
        /\ Numel(x) <= MemoElems}

InitMemo ==
    /\ Init
    /\ num_embeddings * embedding_dim <= MemoCells

\* everything of the call before is gone but its indexes
KeepIndexes ==
    /\ encodings' = NoTensor
    /\ first_term' = NoLoss
    /\ second_term' = NoLoss
    /\ quantized' = NoTensor
    /\ loss' = NoLoss
    /\ UNCHANGED <<indexes, grads>>

\* the next call, the indexes of the call before still in place
CallKeep(x) ==
    /\ pc \in {"idle", "returned"}
    /\ x.shape[2] = embedding_dim
    /\ pc' = "called"
    /\ encoder_inputs' = x
    /\ KeepIndexes
    /\ UNCHANGED <<config, weight, memo>>
    /\ UNCHANGED mask

\* the observer puts the call that returned on record
Remember ==
    /\ pc = "returned"
    /\ memo = NoMemo
    /\ memo' = <<[input |-> encoder_inputs, quantized |-> quantized, loss |-> loss]>>
    /\ pc' = "idle"
    /\ encoder_inputs' = NoTensor
    /\ KeepIndexes
    /\ UNCHANGED <<config, weight>>
    /\ UNCHANGED mask

\* the optimizer's step between two calls: the call on record was made on
\* another codebook and is dropped
StepKeep(cb) ==
    /\ pc \in {"idle", "returned"}
    /\ cb # weight
    /\ weight' = cb
    /\ memo' = NoMemo
    /\ pc' = "idle"
    /\ encoder_inputs' = NoTensor
    /\ KeepIndexes
    /\ UNCHANGED config
    /\ UNCHANGED mask

NextMemo ==
    \/ \E x \in MemoInputs : CallKeep(x)
    \/ Forward
    \/ Remember
    \/ \E cb \in Codebooks(num_embeddings, embedding_dim) : StepKeep(cb)

SpecMemo == InitMemo /\ [][NextMemo]_vars

C7_ForwardChangesNothing ==
    [][/\ config' = config
       /\ pc = "called" => (weight' = weight /\ encoder_inputs' = encoder_inputs)
       /\ weight' # weight => (pc = "idle" /\ pc' = "idle")]_vars

C7_Witness ==
    /\ pc = "returned"
    /\ quantized # encoder_inputs
    /\ Numel(encoder_inputs) >= 2

\* C8: for an input of no query vectors and channel dimension D forward
\* raises nothing and returns an empty quantized of the input's shape and a
\* loss that is zero or NaN.
C8_EmptyInput ==
    (/\ pc \in {"returned", "raised"}
     /\ Numel(encoder_inputs) = 0
     /\ encoder_inputs.shape[2] = embedding_dim) =>
        /\ pc = "returned"
        /\ quantized.shape = encoder_inputs.shape
        /\ Len(quantized.data) = 0
        /\ (IsNaN(loss) \/ loss[1] = 0)

C8_Witness ==
    /\ pc = "returned"
    /\ encoder_inputs.shape = <<0, 2, 2, 2>>
    /\ embedding_dim = 2
    /\ quantized.shape = <<0, 2, 2, 2>>
    /\ IsNaN(loss)

\* C9: for a non-empty input both loss terms are >= 0, with beta >= 0 the
\* loss is >= 0, and then it is 0 exactly when every query vector equals the
\* codebook vector assigned to it.
C9_LossNonNegative ==
    (Returned /\ Numel(encoder_inputs) > 0) =>
        /\ RatSign(first_term) >= 0
        /\ RatSign(second_term) >= 0
        /\ RatSign(commitment_loss) >= 0 =>
              /\ RatSign(loss) >= 0
              /\ RatSign(loss) = 0 <=>
                    \A n \in 1..Len(indexes) : QueryRow(n) = CodeRow(indexes[n])

C9_Witness ==
    /\ pc = "returned"
    /\ commitment_loss = <<1, 4>>
    /\ Len(indexes) = 2
    /\ QueryRow(1) = CodeRow(indexes[1])
    /\ QueryRow(2) # CodeRow(indexes[2])
    /\ RatSign(loss) = 1

\* the codebook indices at the least squared distance from query row n
Nearest(n) ==
    {k \in 0..(num_embeddings - 1) :
        \A j \in 0..(num_embeddings - 1) :
            SqDist(QueryRow(n), CodeRow(k)) <= SqDist(QueryRow(n), CodeRow(j))}

\* C10: every row of the one-hot matrix holds exactly one 1, at the lowest
\* of the indices at the least distance from the query, and the quantized
\* row is that one codebook vector.
C10_TieLowestIndex ==
    Returned =>
        \A n \in 1..Len(indexes) :
            /\ \A k \in Nearest(n) : indexes[n] <= k
            /\ indexes[n] \in Nearest(n)
            /\ \A k \in 0..(num_embeddings - 1) :
                  At2(encodings, n - 1, k) = IF k = indexes[n] THEN 1 ELSE 0
            /\ LET q == ViewRows(Permute0231(quantized), embedding_dim)
               IN  [d \in 1..embedding_dim |-> At2(q, n - 1, d - 1)] = CodeRow(indexes[n])

C10_Witness ==
    /\ pc = "returned"
    /\ embedding_dim = 2
    /\ Len(indexes) = 2
    /\ Nearest(1) = {0, 1}
    /\ CodeRow(0) # CodeRow(1)
    /\ indexes[1] = 0
    /\ Nearest(2) = {0, 1}

\* ------------------------------------------------------ conv_mask_abstract
MaskTypes == {"A", "B"}

\* the two loops of conv_mask_abstract over np.zeros((size, size)): row i and
\* column j (0-based, stored at [i + 1][j + 1]) get 1 when j < x or i < y
MaskLoops(sz, pos) ==
    LET x == pos[1]
        y == pos[2]
    IN  [i \in 1..sz |-> [j \in 1..sz |->
            IF (j - 1) < x \/ (i - 1) < y THEN 1 ELSE 0]]

\* conv_mask_abstract(size, current_pos, mask_type): the loops, then
\* mask_grid[y][x] is 1 for mask_type "B" and 0 otherwise
ConvMaskAbstract(sz, pos, type) ==
    LET x == pos[1]
        y == pos[2]
        g == MaskLoops(sz, pos)
    IN  [g EXCEPT ![y + 1][x + 1] = IF type = "B" THEN 1 ELSE 0]

\* no quantizer is in use; a call of conv_mask_abstract is about to be made
\* with a position inside the grid
InitMask ==
    /\ num_embeddings = 1
    /\ embedding_dim = 1
    /\ commitment_loss = <<1, 4>>
    /\ weight = Zeros(<<1, 1>>)
    /\ pc = "idle"
    /\ encoder_inputs = NoTensor
    /\ indexes = <<>>
    /\ encodings = NoTensor
    /\ first_term = NoLoss
    /\ second_term = NoLoss
    /\ quantized = NoTensor
    /\ loss = NoLoss
    /\ grad_output = NoTensor
    /\ grad_input = NoTensor
    /\ grad_weight = NoTensor
    /\ memo = NoMemo
    /\ size \in 1..MaxSize
    /\ current_pos \in (0..(size - 1)) \X (0..(size - 1))
    /\ mask_type \in MaskTypes
    /\ mask_grid = NoGrid

\* the call of conv_mask_abstract, to its return
ConvMask ==
    /\ size > 0
    /\ mask_grid = NoGrid
    /\ mask_grid' = ConvMaskAbstract(size, current_pos, mask_type)
    /\ UNCHANGED <<config, weight, pc, encoder_inputs, locals, grads, memo,
                   size, current_pos, mask_type>>

NextMask == ConvMask

SpecMask == InitMask /\ [][NextMask]_vars

\* C11: the returned grid has 1 at every cell before the current position
\* in raster order (a row above it, or its row and a column to its left), 0
\* at every cell after it (its row to its right, or a row below it), and at
\* the current cell 1 for mask_type "B" and 0 otherwise.
C11_MaskRasterOrder ==
    mask_grid # NoGrid =>
        LET x == current_pos[1]
            y == current_pos[2]
        IN  \A i \in 0..(size - 1), j \in 0..(size - 1) :
                mask_grid[i + 1][j + 1] =
                    IF i < y \/ (i = y /\ j < x) THEN 1
                    ELSE IF i = y /\ j = x
                         THEN (IF mask_type = "B" THEN 1 ELSE 0)
                         ELSE 0

\* ------------------------------------------------ backward of a loss term
\* a scalar 1: the unit gradient at a loss term
ScalarOne == Tensor(<<>>, <<1>>)

\* backpropagation of a unit gradient from first_term or from second_term
TermBackward(term) ==
    /\ pc = "returned"
    /\ Numel(encoder_inputs) > 0
    /\ LET r == VQTermBackward(term, encoder_inputs, weight, encodings, embedding_dim)
       IN  /\ grad_output' = ScalarOne
           /\ grad_input' = r.grad_input
           /\ grad_weight' = r.grad_weight
    /\ pc' = IF term = "first_term" THEN "first_graded" ELSE "second_graded"
    /\ UNCHANGED <<config, weight, encoder_inputs, locals, memo>>
    /\ UNCHANGED mask

NextLoss ==
    \/ \E x \in Inputs : Call(x)
    \/ Forward
    \/ \E term \in {"first_term", "second_term"} : TermBackward(term)
    \/ Release
    \/ \E cb \in Codebooks(num_embeddings, embedding_dim) : OptimizerStep(cb)

SpecLoss == Init /\ [][NextLoss]_vars

\* C12: the two loss terms have the same value and the loss is
\* (1 + beta) * MSE(quantized, input); the first term sends gradient to the
\* codebook only (none reaches the input) and the second term to the
\* encoder input only (none reaches the codebook); the gradients are taken
\* for the inputs of channel depth embedding_dim.
C12_TermsDifferInGradientOnly ==
    /\ pc \in {"returned", "first_graded", "second_graded"} =>
          /\ RatSame(first_term, second_term)
          /\ RatSame(loss, RatMul(RatAdd(<<1, 1>>, commitment_loss), RefMse))
    /\ (pc = "first_graded" /\ encoder_inputs.shape[2] = embedding_dim) =>
          grad_input = Zeros(encoder_inputs.shape)
    /\ (pc = "second_graded" /\ encoder_inputs.shape[2] = embedding_dim) =>
          grad_weight = Zeros(weight.shape)

\* C12, the part on the values alone
C12_SameValue ==
    pc \in {"returned", "first_graded", "second_graded"} =>
        /\ RatSame(first_term, second_term)
        /\ RatSame(loss, RatMul(RatAdd(<<1, 1>>, commitment_loss), RefMse))

\* C12 with the two terms exchanged: the first term sends gradient to the
\* encoder input only, the second to the codebook only
C12_GradientsAsCoded ==
    /\ pc = "first_graded" => grad_weight = Zeros(weight.shape)
    /\ pc = "second_graded" => grad_input = Zeros(encoder_inputs.shape)

====
